---- MODULE Spec2Model ----
(***************************************************************************)
(* The R <-> native bridge of caviarpd (src/wrapper.c) as a state machine. *)
(*                                                                         *)
(* State: the external pointers the host holds, the native heap of         *)
(* EpaParameters objects, R's pointer-protection stack, and the .Call that *)
(* is running or ran last.  The three registered routines                  *)
(* (new_EpaParameters, free_EpaParameters, samplePartition) are the        *)
(* actions.  The native engine behind dahl-randompartition.h is not part   *)
(* of the sources; it is modelled from its declared entry points and the   *)
(* contract the specification gives for them.  Handing the engine a null   *)
(* or freed pointer, or a buffer shorter than the dimensions it is told,   *)
(* is undefined behaviour and is modelled as a nondeterministic choice     *)
(* (crash, or arbitrary output).                                           *)
(***************************************************************************)
EXTENDS Integers, Sequences, FiniteSets, TLC

VARIABLES
  extptr,     \* extptr[h]: the address stored in external pointer h
  heap,       \* heap[a]: the native EpaParameters object at address a
  ppstack,    \* depth of R's pointer-protection stack
  pc,         \* "idle" | "native" | "callback" | "crashed"
  op,         \* the .Call that is running or ran last
  trace,      \* what that .Call did so far, in order
  destroyed,  \* handles on which free_EpaParameters has returned
  made,       \* made[h]: the address the native constructor returned for h
  ref,        \* one remembered earlier result of samplePartition
  built       \* built[h]: handle h was made with use_natural_permutation set
              \* and a permutation other than the identity

vars == <<extptr, heap, ppstack, pc, op, trace, destroyed, made, ref, built>>

----------------------------------------------------------------------------
\* Bounds of the model.

MaxHandles   == 1   \* external pointers constructed in one run
MaxItems     == 2   \* largest n_items
MaxSamples   == 2   \* largest n_samples
MaxSeed      == 0   \* seeds are 0..MaxSeed
MaxCallbacks == 1   \* host callbacks during one sampling call
MaxLabel     == 1   \* cluster labels are 0..MaxLabel

----------------------------------------------------------------------------
\* Values.

\* (void*) 0
NULL == 0

\* the content of an INTSXP cell nobody has written yet: Rf_allocMatrix does
\* not initialise the vector it returns
Uninit == -1

\* prior_id: a closed-form prior (the EPA handle alone) or a callback-driven one
PRIOR_EPA      == 0
PRIOR_CALLBACK == 1

Handles == 1..Len(extptr)
Labels  == 0..MaxLabel

RECURSIVE CountEv(_, _)
CountEv(tr, e) ==
  IF tr = <<>> THEN 0
  ELSE (IF Head(tr).ev = e THEN 1 ELSE 0) + CountEv(Tail(tr), e)

Ev(e, a) == [ev |-> e, arg |-> a]

\* a Rr_Sexp_Vector_Intsxp naming no vector
NoHandle == [sexp_ptr |-> NULL, data_ptr |-> [vec |-> NULL, off |-> 0], len |-> 0]

NoOp ==
  [name |-> "none", h |-> 0, n_samples |-> 0, n_items |-> 0, seed |-> 0,
   prior_id |-> 0, randomize |-> FALSE, simLen |-> 0, permLen |-> 0,
   depth0 |-> 0, addr0 |-> 0, destroyed0 |-> FALSE, outcome |-> "none",
   protects |-> 0, unprotects |-> 0, iter |-> 0, ncb |-> 0,
   buf |-> <<>>, hasResult |-> FALSE, result |-> <<>>,
   rr |-> NoHandle, rrLen |-> 0, rrPins |-> 0, rrReleases |-> 0]

NoRef == [set |-> FALSE, seed |-> 0, n_items |-> 0, h |-> 0, addr |-> 0, labels |-> <<>>]

----------------------------------------------------------------------------
\* The R API, as far as the wrapper uses it.

PROTECT_skipped(depth) == depth

\* PROTECT(x): push one pointer
PROTECT(depth) == depth + 1

UNPROTECT_forgotten(depth, n) == depth

UNPROTECT_one(depth, n) == depth - 1

\* UNPROTECT(n): pop n pointers
UNPROTECT(depth, n) == depth - n

Rf_asLogical_false(x) == FALSE

\* Rf_asLogical(x): the logical value of the host's flag
Rf_asLogical(x) == x

\* INTEGER(x): the address of the first element of integer vector x
INTEGER(x) == [vec |-> x, off |-> 0]

rrAllocVectorINTSXP_unpinned(len, fresh, depth) ==
  [s |-> [sexp_ptr |-> fresh, data_ptr |-> INTEGER(fresh), len |-> len],
   depth |-> depth]

\* rrAllocVectorINTSXP(len): a fresh integer vector of len elements, pinned;
\* the handle names the vector, the address of its elements and len.
\* depth: the protection stack before and after.
rrAllocVectorINTSXP(len, fresh, depth) ==
  [s |-> [sexp_ptr |-> fresh, data_ptr |-> INTEGER(fresh), len |-> len],
   depth |-> PROTECT(depth)]

\* Rf_nrows of an nrow x ncol matrix
Rf_nrows(nrow, ncol) == nrow

Rf_allocMatrix_rows_only(nrow, ncol) == [k \in 1..nrow |-> Uninit]

\* Rf_allocMatrix(INTSXP, nrow, ncol): fails on a negative extent, otherwise
\* a vector of nrow*ncol uninitialised cells
Rf_allocMatrix_ok(nrow, ncol) == nrow >= 0 /\ ncol >= 0

Rf_allocMatrix(nrow, ncol) == [k \in 1..(nrow * ncol) |-> Uninit]

R_ExternalPtrAddr_null(ep, h) == NULL

\* R_ExternalPtrAddr(s)
R_ExternalPtrAddr(ep, h) == ep[h]

R_ClearExternalPtr_skip(ep, h) == ep

\* R_ClearExternalPtr(s)
R_ClearExternalPtr(ep, h) == [ep EXCEPT ![h] = NULL]

R_MakeExternalPtr_null(ep, p) == Append(ep, NULL)

\* R_MakeExternalPtr(p, tag, prot): a new external pointer holding p
R_MakeExternalPtr(ep, p) == Append(ep, p)

----------------------------------------------------------------------------
\* The native engine (dahl-randompartition.h).  Its code is not among the
\* sources; these definitions follow its declarations and its contract.

Identity(n) == [j \in 1..n |-> j - 1]

IsPermutation(p) ==
  /\ \A j \in DOMAIN p : p[j] \in 0..(Len(p) - 1)
  /\ \A i, j \in DOMAIN p : p[i] = p[j] => i = j

Reverse(n) == [j \in 1..n |-> n - j]

\* the permutations of 0..n-1 the host passes: the identity and the reversal
Permutations_of(n) == {Identity(n), Reverse(n)}

\* the constructor reads n_items*n_items doubles and, unless the natural
\* permutation is asked for, n_items integers
epaparameters_new_inbounds(n_items, simLen, permLen, natural) ==
  /\ simLen >= n_items * n_items
  /\ natural \/ permLen >= n_items

\* dahl_randompartition__epaparameters_new: what the call can come to.
\* "ok": a fresh object; "fatal": the construction fails and the call is
\* aborted; "crash": the process dies.  Reading past a buffer is undefined.
epaparameters_new(n_items, simLen, perm, natural, mass) ==
  LET eff == IF natural \/ Len(perm) < n_items
             THEN Identity(n_items) ELSE SubSeq(perm, 1, n_items)
      obj == [live |-> TRUE, n_items |-> n_items, perm |-> eff, mass |-> mass]
  IN IF ~epaparameters_new_inbounds(n_items, simLen, Len(perm), natural)
     THEN {[kind |-> "crash", obj |-> obj], [kind |-> "ok", obj |-> obj]}
     ELSE IF mass <= 0 \/ ~IsPermutation(eff)
     THEN {[kind |-> "fatal", obj |-> obj]}
     ELSE {[kind |-> "fatal", obj |-> obj], [kind |-> "ok", obj |-> obj]}

\* what is left at the address of a released object
Freed == [live |-> FALSE, n_items |-> 0, perm |-> <<>>, mass |-> 0]

\* dahl_randompartition__epaparameters_free(obj): the outcomes.  Freeing a
\* live object releases it; a null or already freed pointer is undefined.
epaparameters_free(hp, p) ==
  IF p # NULL /\ hp[p].live
  THEN {[kind |-> "ok", heap |-> [hp EXCEPT ![p] = Freed]]}
  ELSE {[kind |-> "ok", heap |-> hp], [kind |-> "crash", heap |-> hp]}

\* the engine can sample: a live object built for the n_items it is told
sample_partition_defined(hp, p, n_items) ==
  /\ p # NULL
  /\ hp[p].live
  /\ hp[p].n_items = n_items

\* the label the engine draws for item j (1-based) of sample s (0-based):
\* a function of the seed, the prior's state and the draw, and of nothing else
sample_label(seed, obj, randomize, s, j) ==
  (seed + obj.perm[j] + obj.mass + (IF randomize THEN s ELSE 0)) % (MaxLabel + 1)

\* the cell of item j of sample s in the n_samples x n_items matrix
\* (column-major, as the host lays matrices out)
cell(n_samples, s, j) == s + (j - 1) * n_samples + 1

\* one sample written into the output buffer
sample_partition_write(buf, o, obj) ==
  [k \in DOMAIN buf |->
     IF \E j \in 1..o.n_items : k = cell(o.n_samples, o.iter, j)
     THEN sample_label(o.seed, obj, o.randomize, o.iter,
                       CHOOSE j \in 1..o.n_items : k = cell(o.n_samples, o.iter, j))
     ELSE buf[k]]

----------------------------------------------------------------------------
\* What the host may pass.

\* new_EpaParameters: a similarity matrix of nrow x ncol doubles, a
\* permutation, the natural-permutation flag, the mass, and whether one of
\* the two coercions fails.  A call that fails before it reads the other
\* arguments is listed once.
NewArgsOk ==
  [nrow : 1..MaxItems, ncol : 1..MaxItems,
   perm : UNION {Permutations_of(n) : n \in 1..MaxItems},
   natural : BOOLEAN, mass : {1}, fail : {"none"}]

NewArgsFailing ==
  [nrow : {1}, ncol : {1}, perm : {<<0>>}, natural : {FALSE},
   mass : {0}, fail : {"none"}]
  \cup
  [nrow : {1}, ncol : {1}, perm : {<<0>>}, natural : {FALSE},
   mass : {1}, fail : {"similarity", "permutation"}]

NewArgs == NewArgsOk \cup NewArgsFailing

\* samplePartition: the counts, the seed (an integer vector, or a vector of
\* another type), the prior's kind and whether to randomise the permutation.
SeedArgs == [type : {"INTSXP"}, val : 0..MaxSeed] \cup [type : {"REALSXP"}, val : {0}]
SampleArgsOk ==
  [n_samples : 0..MaxSamples, n_items : 1..MaxItems,
   seed : [type : {"INTSXP"}, val : 0..MaxSeed],
   prior_id : {PRIOR_EPA, PRIOR_CALLBACK}, randomize : BOOLEAN]

SampleArgsFailing ==
  [n_samples : {-1}, n_items : {1}, seed : [type : {"INTSXP"}, val : {0}],
   prior_id : {PRIOR_EPA}, randomize : {FALSE}]
  \cup
  [n_samples : {1}, n_items : {-1}, seed : [type : {"INTSXP"}, val : {0}],
   prior_id : {PRIOR_EPA}, randomize : {FALSE}]
  \cup
  [n_samples : {1}, n_items : {1}, seed : [type : {"REALSXP"}, val : {0}],
   prior_id : {PRIOR_EPA}, randomize : {FALSE}]

SampleArgs == SampleArgsOk \cup SampleArgsFailing


----------------------------------------------------------------------------
Init ==
  /\ extptr = <<>>
  /\ heap = <<>>
  /\ ppstack = 0
  /\ pc = "idle"
  /\ op = NoOp
  /\ trace = <<>>
  /\ destroyed = {}
  /\ made = <<>>
  /\ ref = NoRef
  /\ built = <<>>

CallAllowed_reentrant == pc \in {"idle", "callback"}

\* The host calls a registered routine from its one thread.  samplePartition
\* calls the engine synchronously (line 61) and holds that thread until the
\* engine returns, and a host callback, by its contract, calls none of the
\* routines: a routine starts only when none is running.
CallAllowed == pc = "idle"

\* An R error (Rf_error) leaves the .Call by a non-local jump to the calling
\* context; R then resets the protection stack to its depth at the .Call.
R_error_depth(o) == o.depth0

new_EpaParameters(nrow, ncol, perm, natural, mass, fail) ==
  /\ CallAllowed
  /\ Len(extptr) < MaxHandles
  /\ LET n_items == Rf_nrows(nrow, ncol)
         simLen  == nrow * ncol
         o == [NoOp EXCEPT !.name = "new", !.h = Len(extptr) + 1,
                           !.n_items = n_items, !.simLen = simLen,
                           !.permLen = Len(perm), !.depth0 = ppstack]
         d1 == PROTECT(ppstack)
         d2 == PROTECT(d1)
     IN
       \/ /\ fail = "similarity"
          /\ op' = [o EXCEPT !.outcome = "error"]
          /\ trace' = <<Ev("error", 0)>>
          /\ ppstack' = R_error_depth(o)
          /\ UNCHANGED <<extptr, heap, pc, made>>
       \/ /\ fail = "permutation"
          /\ op' = [o EXCEPT !.outcome = "error", !.protects = 1]
          /\ trace' = <<Ev("PROTECT", 1), Ev("error", 0)>>
          /\ ppstack' = R_error_depth(o)
          /\ UNCHANGED <<extptr, heap, pc, made>>
       \/ /\ fail = "none"
          /\ \E r \in epaparameters_new(n_items, simLen, perm,
                                         Rf_asLogical(natural), mass) :
               LET tr == <<Ev("PROTECT", 1), Ev("PROTECT", 1), Ev("native_new", n_items)>>
               IN
               \/ /\ r.kind = "fatal"
                  /\ op' = [o EXCEPT !.outcome = "error", !.protects = 2]
                  /\ trace' = tr \o <<Ev("error", 0)>>
                  /\ ppstack' = R_error_depth(o)
                  /\ UNCHANGED <<extptr, heap, pc, made>>
               \/ /\ r.kind = "crash"
                  /\ op' = [o EXCEPT !.outcome = "crashed", !.protects = 2]
                  /\ trace' = tr
                  /\ ppstack' = d2
                  /\ pc' = "crashed"
                  /\ UNCHANGED <<extptr, heap, made>>
               \/ /\ r.kind = "ok"
                  /\ LET ptr == Len(heap) + 1 IN
                     /\ heap' = Append(heap, r.obj)
                     /\ made' = Append(made, ptr)
                     /\ ppstack' = UNPROTECT(d2, 2)
                     /\ extptr' = R_MakeExternalPtr(extptr, ptr)
                     /\ op' = [o EXCEPT !.outcome = "returned", !.protects = 2,
                                        !.unprotects = 2, !.addr0 = ptr]
                     /\ trace' = tr \o <<Ev("UNPROTECT", 2), Ev("return", ptr)>>
                     /\ UNCHANGED pc
  /\ UNCHANGED <<destroyed, ref>>

free_EpaParameters(h) ==
  /\ CallAllowed
  /\ h \in Handles
  /\ LET ptr == R_ExternalPtrAddr(extptr, h)
         o == [NoOp EXCEPT !.name = "free", !.h = h, !.depth0 = ppstack,
                           !.addr0 = extptr[h], !.destroyed0 = (h \in destroyed)]
     IN \E r \in epaparameters_free(heap, ptr) :
          \/ /\ r.kind = "crash"
             /\ op' = [o EXCEPT !.outcome = "crashed"]
             /\ trace' = <<Ev("native_free", ptr)>>
             /\ pc' = "crashed"
             /\ UNCHANGED <<extptr, heap, destroyed>>
          \/ /\ r.kind = "ok"
             /\ heap' = r.heap
             /\ extptr' = R_ClearExternalPtr(extptr, h)
             /\ destroyed' = destroyed \cup {h}
             /\ op' = [o EXCEPT !.outcome = "returned"]
             /\ trace' = <<Ev("native_free", ptr), Ev("clear", h), Ev("return", 0)>>
             /\ UNCHANGED pc
  /\ UNCHANGED <<ppstack, made, ref, built>>

\* samplePartition, lines 53-61: up to the call of the native engine.
samplePartition(n_samples, n_items, seed, prior_id, h, randomize) ==
  /\ CallAllowed
  /\ h \in Handles
  /\ LET o == [NoOp EXCEPT !.name = "samplePartition", !.h = h,
                           !.n_samples = n_samples, !.n_items = n_items,
                           !.seed = seed.val, !.prior_id = prior_id,
                           !.randomize = randomize, !.depth0 = ppstack,
                           !.addr0 = extptr[h], !.destroyed0 = (h \in destroyed)]
     IN
       \/ /\ ~Rf_allocMatrix_ok(n_samples, n_items)
          /\ op' = [o EXCEPT !.outcome = "error"]
          /\ trace' = <<Ev("error", 0)>>
          /\ ppstack' = R_error_depth(o)
          /\ UNCHANGED pc
       \/ /\ Rf_allocMatrix_ok(n_samples, n_items)
          /\ seed.type # "INTSXP"
          /\ op' = [o EXCEPT !.outcome = "error", !.protects = 1]
          /\ trace' = <<Ev("PROTECT", 1), Ev("error", 0)>>
          /\ ppstack' = R_error_depth(o)
          /\ UNCHANGED pc
       \/ /\ Rf_allocMatrix_ok(n_samples, n_items)
          /\ seed.type = "INTSXP"
          /\ LET prior_ptr == R_ExternalPtrAddr(extptr, h) IN
             /\ op' = [o EXCEPT !.outcome = "running", !.protects = 1,
                                !.addr0 = prior_ptr,
                                !.buf = Rf_allocMatrix(n_samples, n_items)]
             /\ trace' = <<Ev("PROTECT", 1), Ev("native_sample", prior_ptr)>>
          /\ ppstack' = PROTECT(ppstack)
          /\ pc' = "native"
  /\ UNCHANGED <<extptr, heap, destroyed, made, ref, built>>

\* dahl_randompartition__sample_partition draws the next of its n_partitions
\* samples and writes it into the output buffer.
sample_partition_iterate ==
  /\ pc = "native"
  /\ sample_partition_defined(heap, op.addr0, op.n_items)
  /\ op.iter < op.n_samples
  /\ op' = [op EXCEPT !.buf = sample_partition_write(op.buf, op, heap[op.addr0]),
                      !.iter = op.iter + 1]
  /\ UNCHANGED <<extptr, heap, ppstack, pc, trace, destroyed, made, ref, built>>

\* dahl_randompartition__sample_partition on a null or freed prior, or on a
\* prior built for another n_items: undefined.  The process dies, or the
\* engine returns having written nothing, or labels of its making, to the
\* buffer.
sample_partition_undefined ==
  /\ pc = "native"
  /\ ~sample_partition_defined(heap, op.addr0, op.n_items)
  /\ op.iter = 0
  /\ op.outcome = "running"
  /\ \/ /\ pc' = "crashed"
        /\ op' = [op EXCEPT !.outcome = "crashed"]
     \/ /\ \E v \in {0, Uninit} :
             op' = [op EXCEPT !.buf = [k \in DOMAIN op.buf |-> v],
                              !.iter = op.n_samples, !.outcome = "written"]
        /\ UNCHANGED pc
  /\ UNCHANGED <<extptr, heap, ppstack, trace, destroyed, made, ref, built>>

\* The engine asks the host for a likelihood (a callback-driven prior).
\* o, tr, depth: the call, its trace and the protection stack as the engine
\* has left them when it calls the host.
CallbackEnter(which, o, tr, depth) ==
  /\ pc = "native"
  /\ op.prior_id = PRIOR_CALLBACK
  /\ sample_partition_defined(heap, op.addr0, op.n_items)
  /\ op.iter < op.n_samples
  /\ op.ncb < MaxCallbacks
  /\ pc' = "callback"
  /\ op' = [o EXCEPT !.ncb = op.ncb + 1]
  /\ trace' = Append(tr, Ev(which, op.ncb + 1))
  /\ ppstack' = depth
  /\ UNCHANGED <<extptr, heap, destroyed, made, ref, built>>

\* release(handle): unpin the vector of a managed vector handle
rr_release(depth) == UNPROTECT(depth, 1)

\* the size of the subset the engine asks about: like the labels it draws,
\* a function of the seed and of the questions asked before
subset_len(o) == o.n_items - ((o.seed + o.ncb) % o.n_items)

\* The engine asks for the likelihood of a subset of items: it allocates the
\* vector of their indices with rrAllocVectorINTSXP, writes them, and the
\* vector is released before the host function receives it.
callRFunction_logIntegratedLikelihoodSubset ==
  \E len \in 1..MaxItems :
    /\ op.n_items >= 1
    /\ len = subset_len(op)
    /\ LET a == rrAllocVectorINTSXP(len, op.ncb + 2, ppstack)
           v == a.s.sexp_ptr
       IN CallbackEnter("callback_subset",
                        [op EXCEPT !.rr = a.s, !.rrLen = len,
                                   !.rrPins = @ + (a.depth - ppstack),
                                   !.rrReleases = @ + 1],
                        trace \o <<Ev("rr_alloc", v), Ev("rr_write", v),
                                   Ev("rr_release", v)>>,
                        rr_release(a.depth))

callRFunction_logLikelihoodItem == CallbackEnter("callback_item", op, trace, ppstack)

\* the host function returns a likelihood; the engine goes on
CallbackReturn ==
  /\ pc = "callback"
  /\ pc' = "native"
  /\ UNCHANGED <<extptr, heap, ppstack, op, trace, destroyed, made, ref, built>>

ErrorUnwind_partial(o) ==
  [o EXCEPT !.outcome = "returned", !.hasResult = TRUE, !.result = o.buf]

\* samplePartition sets up no handler around the native call: an R error
\* raised below it unwinds through it, and it returns nothing
ErrorUnwind(o) ==
  [o EXCEPT !.outcome = "error", !.hasResult = FALSE, !.result = <<>>]

\* the host function signals an error
CallbackError ==
  /\ pc = "callback"
  /\ pc' = "idle"
  /\ op' = ErrorUnwind(op)
  /\ trace' = Append(trace, Ev("error", 0))
  /\ ppstack' = R_error_depth(op)
  /\ UNCHANGED <<extptr, heap, destroyed, made, ref, built>>

\* the result of a call that qualifies for the determinism property
Remembered(o) ==
  [set |-> TRUE, seed |-> o.seed, n_items |-> o.n_items, h |-> o.h,
   addr |-> o.addr0, labels |-> o.result]

\* samplePartition, lines 62-63: the native call has returned.
samplePartition_return ==
  /\ pc = "native"
  /\ \/ op.outcome = "written"
     \/ /\ sample_partition_defined(heap, op.addr0, op.n_items)
        /\ op.iter >= op.n_samples
  /\ pc' = "idle"
  /\ ppstack' = UNPROTECT(ppstack, 1)
  /\ op' = [op EXCEPT !.outcome = "returned", !.hasResult = TRUE,
                      !.result = op.buf,
                      !.unprotects = 1]
  /\ trace' = trace \o <<Ev("UNPROTECT", 1), Ev("return", 0)>>
  /\ UNCHANGED <<extptr, heap, destroyed, made, built>>

Next ==
  \/ \E a \in NewArgs :
       /\ new_EpaParameters(a.nrow, a.ncol, a.perm, a.natural, a.mass, a.fail)
       /\ UNCHANGED built
  \/ \E h \in Handles : free_EpaParameters(h)
  \/ \E a \in SampleArgs, h \in Handles :
       samplePartition(a.n_samples, a.n_items, a.seed, a.prior_id, h, a.randomize)
  \/ sample_partition_iterate
  \/ sample_partition_undefined
  \/ callRFunction_logIntegratedLikelihoodSubset
  \/ callRFunction_logLikelihoodItem
  \/ CallbackReturn
  \/ CallbackError
  \/ samplePartition_return /\ UNCHANGED ref

Spec == Init /\ [][Next]_vars

\* The same program, also remembering results: when a qualifying call
\* (n_samples = 1, no randomisation) returns, its result may be kept in ref
\* to compare a later call against.
Remember ==
  \/ ref' = ref
  \/ /\ op'.n_samples = 1
     /\ ~op'.randomize
     /\ ref' = Remembered(op')

NextDet ==
  \/ \E a \in NewArgs :
       /\ new_EpaParameters(a.nrow, a.ncol, a.perm, a.natural, a.mass, a.fail)
       /\ UNCHANGED built
  \/ \E h \in Handles : free_EpaParameters(h)
  \/ \E a \in SampleArgs, h \in Handles :
       samplePartition(a.n_samples, a.n_items, a.seed, a.prior_id, h, a.randomize)
  \/ sample_partition_iterate
  \/ sample_partition_undefined
  \/ callRFunction_logIntegratedLikelihoodSubset
  \/ callRFunction_logLikelihoodItem
  \/ CallbackReturn
  \/ CallbackError
  \/ samplePartition_return /\ Remember

SpecDet == Init /\ [][NextDet]_vars

\* The same program, also keeping, for every handle made, whether it was
\* made with use_natural_permutation set and a permutation array that is
\* not the identity of its n_items.
RememberBuilt(nrow, ncol, natural, perm) ==
  IF Len(extptr') > Len(extptr)
  THEN built' = Append(built, natural /\ perm # Identity(Rf_nrows(nrow, ncol)))
  ELSE built' = built

NextNat ==
  \/ \E a \in NewArgs :
       /\ new_EpaParameters(a.nrow, a.ncol, a.perm, a.natural, a.mass, a.fail)
       /\ RememberBuilt(a.nrow, a.ncol, a.natural, a.perm)
  \/ \E h \in Handles : free_EpaParameters(h)
  \/ \E a \in SampleArgs, h \in Handles :
       samplePartition(a.n_samples, a.n_items, a.seed, a.prior_id, h, a.randomize)
  \/ sample_partition_iterate
  \/ sample_partition_undefined
  \/ callRFunction_logIntegratedLikelihoodSubset
  \/ callRFunction_logLikelihoodItem
  \/ CallbackReturn
  \/ CallbackError
  \/ samplePartition_return /\ UNCHANGED ref

SpecNat == Init /\ [][NextNat]_vars

TypeOK ==
  /\ pc \in {"idle", "native", "callback", "crashed"}
  /\ ppstack \in 0..2
  /\ Len(extptr) <= MaxHandles
  /\ Len(made) = Len(extptr)

----------------------------------------------------------------------------
\* Shorthands for the properties.

IsSample == op.name = "samplePartition"
IsNew    == op.name = "new"
IsFree   == op.name = "free"
Returned == op.outcome = "returned"
Failed   == op.outcome = "error"

\* the addresses the native sampler was called with during this .Call
NativeSampleArgs == {trace[i].arg : i \in {k \in DOMAIN trace : trace[k].ev = "native_sample"}}

----------------------------------------------------------------------------
\* C1 (as claimed): a samplePartition call on a handle that was destroyed
\* before never gets as far as dahl_randompartition__sample_partition.
C1_DestroyedHandleRejected ==
  (IsSample /\ op.destroyed0) => CountEv(trace, "native_sample") = 0

\* C2: when free_EpaParameters(h) has returned, the address in h is null,
\* and the call did exactly this, in this order: the native free, once, with
\* the address h held on entry, and then the clearing of h.
C2_DestroyClearsToken ==
  (IsFree /\ Returned) =>
     /\ extptr[op.h] = NULL
     /\ trace = <<Ev("native_free", op.addr0), Ev("clear", op.h), Ev("return", 0)>>
     /\ op.addr0 # NULL => ~heap[op.addr0].live

C2_Witness ==
  IsFree /\ Returned /\ op.addr0 # NULL /\ extptr[op.h] = NULL

\* C3 (as claimed): a free_EpaParameters call on a handle that was destroyed
\* before does not call dahl_randompartition__epaparameters_free.
C3_SecondDestroyStaysOnHost ==
  (IsFree /\ op.destroyed0) => CountEv(trace, "native_free") = 0

\* C4 (as claimed): whichever way a samplePartition call that pinned its
\* output buffer ends, it has unpinned it exactly once.
C4_UnprotectOnEveryExit ==
  (IsSample /\ (Returned \/ Failed) /\ op.protects = 1) => op.unprotects = 1

\* C4 (amended): a samplePartition call that returns has pinned once and
\* unpinned once; one that ends in an R error has executed no UNPROTECT, and
\* the protection stack is back at its depth at entry only because R resets
\* it; either way the depth after the call is the depth before it.
C4_DepthRestored ==
  (IsSample /\ (Returned \/ Failed)) =>
     /\ ppstack = op.depth0
     /\ Returned => (op.protects = 1 /\ op.unprotects = 1)
     /\ Failed => op.unprotects = 0

C4_Witness ==
  IsSample /\ Failed /\ op.ncb > 0 /\ op.protects = 1 /\ ppstack = op.depth0

\* C5 (as claimed): a returned matrix has n_samples * n_items entries, and
\* with n_samples = 0 it is empty and the native sampler was not invoked.
C5_EmptyWithoutNativeCall ==
  (IsSample /\ Returned) =>
     /\ Len(op.result) = op.n_samples * op.n_items
     /\ op.n_samples = 0 => (op.result = <<>> /\ CountEv(trace, "native_sample") = 0)

\* C5 (amended): a returned matrix has n_samples * n_items entries; with
\* n_samples = 0 it is empty and the engine has drawn no sample, but the
\* wrapper did call dahl_randompartition__sample_partition, once.
C5_Shape ==
  (IsSample /\ Returned) =>
     /\ Len(op.result) = op.n_samples * op.n_items
     /\ op.n_samples = 0 =>
          /\ op.result = <<>>
          /\ op.iter = 0
          /\ CountEv(trace, "native_sample") = 1

C5_Witness ==
  IsSample /\ Returned /\ op.n_samples = 0 /\ op.n_items >= 1 /\ op.result = <<>>

\* C6 (as claimed): a call whose dimensions disagree (similarity not
\* n_items*n_items, permutation not n_items long, n_items other than the
\* prior's) or are negative ends in an error before any native call.
C6_MalformedRejected ==
  /\ (IsNew /\ (op.simLen # op.n_items * op.n_items \/ op.permLen # op.n_items)) =>
        (Failed /\ CountEv(trace, "native_new") = 0)
  /\ (IsSample /\ (op.n_samples < 0 \/ op.n_items < 0)) =>
        (Failed /\ CountEv(trace, "native_sample") = 0)
  /\ (IsSample /\ op.addr0 # NULL /\ heap[op.addr0].live
               /\ heap[op.addr0].n_items # op.n_items) =>
        (Failed /\ CountEv(trace, "native_sample") = 0)

\* C7: no step of a samplePartition call, successful or not, changes the
\* address stored in any handle, the native objects or which handles are
\* destroyed; and a call on a handle that has not been destroyed hands the
\* engine exactly the pointer the native constructor returned for it.
C7_SamplingLeavesHandle ==
  /\ [][op'.name = "samplePartition" =>
          (extptr' = extptr /\ heap' = heap /\ destroyed' = destroyed)]_vars
  /\ []((IsSample /\ ~op.destroyed0 /\ op.outcome # "error") =>
          (NativeSampleArgs = {made[op.h]} /\ extptr[op.h] = made[op.h]))
  /\ []((IsSample /\ ~op.destroyed0) =>
          (extptr[op.h] = made[op.h] /\ heap[made[op.h]].live))

C7_Witness ==
  /\ IsSample /\ Failed /\ op.ncb > 0 /\ ~op.destroyed0
  /\ NativeSampleArgs = {made[op.h]}
  /\ extptr[op.h] = made[op.h]

C9_CallbackErrorFatal ==
  (IsSample /\ op.ncb > 0 /\ CountEv(trace, "error") > 0) =>
     /\ op.outcome = "error"
     /\ ~op.hasResult
     /\ op.result = <<>>
     /\ pc = "idle"

C9_Witness ==
  /\ IsSample /\ Failed /\ op.ncb > 0
  /\ \E k \in DOMAIN op.buf : op.buf[k] # Uninit
  /\ \E k \in DOMAIN op.buf : op.buf[k] = Uninit
  /\ ~op.hasResult

DeterminismWhereDefined ==
  (/\ IsSample /\ Returned /\ op.n_samples = 1 /\ ~op.randomize
   /\ ref.set
   /\ ref.seed = op.seed /\ ref.n_items = op.n_items
   /\ ref.h = op.h /\ ref.addr = op.addr0
   /\ sample_partition_defined(heap, op.addr0, op.n_items))
  => op.result = ref.labels

\* a sampling call is in progress: the engine, or a host callback on top of it
InFlight == pc \in {"native", "callback"}

\* the place of the first event e in a trace, 0 when there is none
FirstEv(tr, e) ==
  IF \E i \in DOMAIN tr : tr[i].ev = e
  THEN CHOOSE i \in DOMAIN tr : tr[i].ev = e /\ \A k \in 1..(i - 1) : tr[k].ev # e
  ELSE 0

C16_NoDoubleFree ==
  /\ IsFree =>
       /\ trace[1] = Ev("native_free", op.addr0)
       /\ CountEv(trace, "native_free") = 1
       /\ op.destroyed0 => op.addr0 = NULL
       /\ op.addr0 # NULL =>
            /\ op.addr0 = made[op.h]
            /\ \A g \in Handles \ {op.h} : made[g] # op.addr0
            /\ Returned => ~heap[op.addr0].live
  /\ \A h \in Handles :
       /\ h \in destroyed => (extptr[h] = NULL /\ ~heap[made[h]].live)
       /\ extptr[h] # NULL => (extptr[h] = made[h] /\ heap[extptr[h]].live)

C16_Witness ==
  /\ IsFree /\ Returned /\ op.destroyed0
  /\ trace[1] = Ev("native_free", NULL)
  /\ ~heap[made[op.h]].live

\* C17: when new_EpaParameters returns, it has pinned twice and unpinned
\* both, and the protection stack is as deep as at entry; free_EpaParameters
\* leaves the depth alone, however it ends.
C17_ConstructorBalance ==
  /\ (IsNew /\ Returned) =>
        /\ ppstack = op.depth0
        /\ op.protects = 2
        /\ op.unprotects = 2
        /\ CountEv(trace, "PROTECT") = 2
        /\ trace[4] = Ev("UNPROTECT", 2)
  /\ IsFree =>
        /\ ppstack = op.depth0
        /\ CountEv(trace, "PROTECT") = 0
        /\ CountEv(trace, "UNPROTECT") = 0

C17_Witness ==
  IsNew /\ Returned /\ op.protects = 2 /\ op.unprotects = 2 /\ ppstack = op.depth0

\* the objects the native constructor makes of an n_items x n_items
\* similarity, the identity permutation passed explicitly, and a mass
IdentityBuilt(n_items, mass) ==
  {r.obj : r \in {q \in UNION {epaparameters_new(n_items, simLen, Identity(n_items),
                                                  FALSE, mass) :
                               simLen \in (n_items * n_items)..(MaxItems * MaxItems)} :
                   q.kind = "ok"}}

RECURSIVE SampledFrom(_, _, _)
\* the matrix the engine has written after samples s..n_samples-1 of call o
SampledFrom(buf, o, obj) ==
  IF o.iter >= o.n_samples THEN buf
  ELSE SampledFrom(sample_partition_write(buf, o, obj),
                   [o EXCEPT !.iter = o.iter + 1], obj)

\* what samplePartition called as o returns on a prior object obj
Sampled(o, obj) ==
  SampledFrom(Rf_allocMatrix(o.n_samples, o.n_items), [o EXCEPT !.iter = 0], obj)

Places(tr, e) == {i \in DOMAIN tr : tr[i].ev = e}

====
